---- MODULE Spec2Model ----
(***************************************************************************)
(* Inventory / equip logic of AInventoryDemoCharacter                      *)
(* (Source/InventoryDemo/InventoryDemoCharacter.cpp).                      *)
(*                                                                         *)
(* The character owns a UInventoryComponent (the store) and one            *)
(* EquippedItem pointer.  The store's own code (InventoryComponent.cpp)    *)
(* and the EInventorySlotType enum (InventoryDemoCharacter.h) are not part *)
(* of the translated file; they are modelled from their documented         *)
(* contract and marked so in the model map.                                *)
(***************************************************************************)
EXTENDS Integers, Sequences, FiniteSets, TLC

\* ---------------------------------------------------------------- bounds
\* Number of distinct item actors the callers may hand in.
NumHandles == 3
\* Largest raw value of the slot argument the callers may pass.
MaxSlotValue == 3

\* ------------------------------------------------------------- constants
\* nullptr: the empty EquippedItem.
NULL == 0
\* EInventorySlotType enumerators, by their integer value.
Primary == 0
Secondary == 1
Count == 2
\* EquipIndex's answer when EquipItem assigns nothing.
NoIndex == -1

Handles == 1..NumHandles
Slots == 0..MaxSlotValue

VARIABLES
    items,                \* InventoryComponent's ordered contents
    EquippedItem,         \* the character's equipped item, or NULL
    ItemEquippedDelegate, \* name of the bound callback, "" when unbound
    ItemRemovedDelegate,  \* name of the bound callback, "" when unbound
    phase,                \* "constructed", "playing" (after BeginPlay), "ended"
    rangeError,           \* an out-of-range TArray index has been read
    call,                 \* the last operation called and its argument
    ret,                  \* its return value (FALSE for a void operation)
    pre,                  \* items and EquippedItem when it was called
    storeEvent,           \* the notification the store raised during it
    outbound              \* the OnInventoryItem... calls made during it

vars == <<items, EquippedItem, ItemEquippedDelegate, ItemRemovedDelegate, phase,
          rangeError, call, ret, pre, storeEvent, outbound>>

NoEvent == [kind |-> "none", item |-> NULL]

\* ------------------------------------------------------ history helpers
Snapshot == [items |-> items, equipped |-> EquippedItem]

Called(op, arg) ==
    /\ call' = [op |-> op, arg |-> arg]
    /\ pre' = Snapshot

\* A call that raises no store notification and returns nothing.
Quiet ==
    /\ ret' = FALSE
    /\ storeEvent' = NoEvent
    /\ outbound' = <<>>

\* ------------------------------------------------------------ the store
GetNumItems == Len(items)

GetItems == items

\* UInventoryComponent::AddItem: appends when the store's own capacity
\* policy allows it (accept), otherwise leaves the contents alone.
StoreAddItem(its, InItem, accept) ==
    IF accept THEN Append(its, InItem) ELSE its

RECURSIVE RemoveFirst(_, _)
\* UInventoryComponent::RemoveItem: drops the first entry equal to InItem.
RemoveFirst(its, InItem) ==
    IF its = <<>> THEN <<>>
    ELSE IF Head(its) = InItem THEN Tail(its)
    ELSE <<Head(its)>> \o RemoveFirst(Tail(its), InItem)

\* ---------------------------------------------------- notification chain
InventoryItemAdded(InItem) ==
    << [surface |-> "OnInventoryItemAdded", item |-> InItem] >>

InventoryItemRemoved(InItem) ==
    << [surface |-> "OnInventoryItemRemoved", item |-> InItem] >>

\* A unicast delegate: runs the bound member function, nothing when unbound.
ExecuteIfBound(delegate, InItem) ==
    CASE delegate = "InventoryItemAdded" -> InventoryItemAdded(InItem)
      [] delegate = "InventoryItemRemoved" -> InventoryItemRemoved(InItem)
      [] OTHER -> <<>>

\* -------------------------------------------------------------- lifecycle
BeginPlay ==
    /\ phase = "constructed"
    /\ phase' = "playing"
    /\ ItemEquippedDelegate' = "InventoryItemAdded"
    /\ ItemRemovedDelegate' = "InventoryItemRemoved"
    /\ Called("BeginPlay", NULL)
    /\ Quiet
    /\ UNCHANGED <<items, EquippedItem, rangeError>>

EndPlay_NoUnbind ==
    /\ phase = "playing"
    /\ phase' = "ended"
    /\ Called("EndPlay", NULL)
    /\ Quiet
    /\ UNCHANGED <<items, EquippedItem, rangeError,
                   ItemEquippedDelegate, ItemRemovedDelegate>>

EndPlay ==
    /\ phase = "playing"
    /\ phase' = "ended"
    /\ ItemEquippedDelegate' = ""
    /\ ItemRemovedDelegate' = ""
    /\ Called("EndPlay", NULL)
    /\ Quiet
    /\ UNCHANGED <<items, EquippedItem, rangeError>>

\* ------------------------------------------------------ AddInventoryItem
CanAdd_OffByOne(oldItemCount) == oldItemCount <= Count

\* the capacity pre-check
CanAdd(oldItemCount) == oldItemCount < Count

AddResult_GreaterEq(oldItemCount, newItemCount) == newItemCount >= oldItemCount

\* the returned flag
AddResult(oldItemCount, newItemCount) == newItemCount > oldItemCount

AddInventoryItem(InItem) ==
    \E accept \in BOOLEAN :
        LET oldItemCount == GetNumItems
            added == CanAdd(oldItemCount) /\ accept
            newItems == IF CanAdd(oldItemCount)
                          THEN StoreAddItem(items, InItem, accept)
                          ELSE items
        IN  /\ items' = newItems
            /\ ret' = AddResult(oldItemCount, Len(newItems))
            /\ storeEvent' = IF added THEN [kind |-> "added", item |-> InItem]
                                      ELSE NoEvent
            /\ outbound' = IF added
                             THEN ExecuteIfBound(ItemEquippedDelegate, InItem)
                             ELSE <<>>
            /\ Called("AddInventoryItem", InItem)
            /\ UNCHANGED <<EquippedItem, ItemEquippedDelegate,
                           ItemRemovedDelegate, phase, rangeError>>

\* --------------------------------------------------- RemoveInventoryItem
RemoveInventoryItem_FromStore(InItem) ==
    /\ items' = RemoveFirst(items, InItem)
    /\ Called("RemoveInventoryItem", InItem)
    /\ ret' = FALSE
    /\ storeEvent' = IF items' # items THEN [kind |-> "removed", item |-> InItem]
                                       ELSE NoEvent
    /\ outbound' = IF items' # items
                     THEN ExecuteIfBound(ItemRemovedDelegate, InItem)
                     ELSE <<>>
    /\ UNCHANGED <<EquippedItem, ItemEquippedDelegate, ItemRemovedDelegate,
                   phase, rangeError>>

RemoveInventoryItem(InItem) ==
    /\ Called("RemoveInventoryItem", InItem)
    /\ Quiet
    /\ UNCHANGED <<items, EquippedItem, ItemEquippedDelegate,
                   ItemRemovedDelegate, phase, rangeError>>

\* -------------------------------------------------------------- EquipItem
EquipIndex_NoEquippedGuard(its, equipped, Slot) ==
    IF Len(its) > 0
      THEN CASE Slot = Primary -> Slot
             [] Slot = Secondary -> IF Len(its) > Secondary THEN Slot ELSE NoIndex
             [] Slot = Count -> 0
             [] OTHER -> NoIndex
      ELSE NoIndex

EquipIndex_SecondaryReadsFirst(its, equipped, Slot) ==
    IF Len(its) > 0 /\ equipped = NULL
      THEN CASE Slot = Primary -> Slot
             [] Slot = Secondary -> IF Len(its) > Secondary THEN 0 ELSE NoIndex
             [] Slot = Count -> 0
             [] OTHER -> NoIndex
      ELSE NoIndex

EquipIndex_NoSecondaryGuard(its, equipped, Slot) ==
    IF Len(its) > 0 /\ equipped = NULL
      THEN CASE Slot = Primary -> Slot
             [] Slot = Secondary -> Slot
             [] Slot = Count -> 0
             [] OTHER -> NoIndex
      ELSE NoIndex

EquipIndex_CountReadsLast(its, equipped, Slot) ==
    IF Len(its) > 0 /\ equipped = NULL
      THEN CASE Slot = Primary -> Slot
             [] Slot = Secondary -> IF Len(its) > Secondary THEN Slot ELSE NoIndex
             [] Slot = Count -> Len(its) - 1
             [] OTHER -> NoIndex
      ELSE NoIndex

\* The index of GetItems() that EquipItem reads for Slot, NoIndex when it
\* assigns nothing.
EquipIndex(its, equipped, Slot) ==
    IF Len(its) > 0 /\ equipped = NULL
      THEN CASE Slot = Primary -> Slot
             [] Slot = Secondary -> IF Len(its) > Secondary THEN Slot ELSE NoIndex
             [] Slot = Count -> 0
             [] OTHER -> NoIndex
      ELSE NoIndex

\* Whether EquipItem reads past the end of GetItems().
EquipOutOfRange(its, equipped, Slot) ==
    LET idx == EquipIndex(its, equipped, Slot)
    IN  idx # NoIndex /\ idx >= Len(its)

\* The values EquippedItem may hold after EquipItem(Slot); an out-of-range
\* read yields an arbitrary pointer.
EquipOutcome(its, equipped, Slot) ==
    LET idx == EquipIndex(its, equipped, Slot)
    IN  IF idx = NoIndex THEN {equipped}
        ELSE IF idx < Len(its) THEN {its[idx + 1]}
        ELSE Handles \cup {NULL}

EquipItem(Slot) ==
    /\ EquippedItem' \in EquipOutcome(GetItems, EquippedItem, Slot)
    /\ rangeError' = (rangeError \/ EquipOutOfRange(GetItems, EquippedItem, Slot))
    /\ Called("EquipItem", Slot)
    /\ Quiet
    /\ UNCHANGED <<items, ItemEquippedDelegate, ItemRemovedDelegate, phase>>

\* ------------------------------------------------------------ the stubs
UnequipItem ==
    /\ Called("UnequipItem", NULL)
    /\ Quiet
    /\ UNCHANGED <<items, EquippedItem, ItemEquippedDelegate,
                   ItemRemovedDelegate, phase, rangeError>>

DropItem_ClearsEquipped ==
    /\ EquippedItem' = NULL
    /\ Called("DropItem", NULL)
    /\ Quiet
    /\ UNCHANGED <<items, ItemEquippedDelegate, ItemRemovedDelegate, phase,
                   rangeError>>

DropItem ==
    /\ Called("DropItem", NULL)
    /\ Quiet
    /\ UNCHANGED <<items, EquippedItem, ItemEquippedDelegate,
                   ItemRemovedDelegate, phase, rangeError>>

DrawItem ==
    /\ Called("DrawItem", NULL)
    /\ Quiet
    /\ UNCHANGED <<items, EquippedItem, ItemEquippedDelegate,
                   ItemRemovedDelegate, phase, rangeError>>

HolsterItem ==
    /\ Called("HolsterItem", NULL)
    /\ Quiet
    /\ UNCHANGED <<items, EquippedItem, ItemEquippedDelegate,
                   ItemRemovedDelegate, phase, rangeError>>

\* ---------------------------------------- a removal made on the store
\* Another owner of the component removes a stored item; the store raises
\* its removal notification.
StoreRemoveItem(InItem) ==
    /\ \E i \in 1..Len(items) : items[i] = InItem
    /\ items' = RemoveFirst(items, InItem)
    /\ storeEvent' = [kind |-> "removed", item |-> InItem]
    /\ outbound' = ExecuteIfBound(ItemRemovedDelegate, InItem)
    /\ ret' = FALSE
    /\ Called("StoreRemoveItem", InItem)
    /\ UNCHANGED <<EquippedItem, ItemEquippedDelegate, ItemRemovedDelegate,
                   phase, rangeError>>

\* ------------------------------------------------------- specifications
Init ==
    /\ items = <<>>
    /\ EquippedItem = NULL
    /\ ItemEquippedDelegate = ""
    /\ ItemRemovedDelegate = ""
    /\ phase = "constructed"
    /\ rangeError = FALSE
    /\ call = [op |-> "AInventoryDemoCharacter", arg |-> NULL]
    /\ ret = FALSE
    /\ pre = [items |-> <<>>, equipped |-> NULL]
    /\ storeEvent = NoEvent
    /\ outbound = <<>>

Next ==
    \/ BeginPlay
    \/ EndPlay
    \/ \E InItem \in Handles : AddInventoryItem(InItem)
    \/ \E InItem \in Handles : RemoveInventoryItem(InItem)
    \/ \E Slot \in Slots : EquipItem(Slot)
    \/ UnequipItem
    \/ DropItem
    \/ DrawItem
    \/ HolsterItem

\* The character's public operations and its lifecycle.
Spec == Init /\ [][Next]_vars

NextStore ==
    \/ Next
    \/ \E InItem \in Handles : StoreRemoveItem(InItem)

\* The same, with removals made on the store by its other owners.
SpecStore == Init /\ [][NextStore]_vars

\* ------------------------------------------------------------ properties
Contains(its, h) == \E i \in 1..Len(its) : its[i] = h

\* C1: whatever sequence of operations is called on an empty store, the
\* store never holds more than Count (2) items.
C1_CountWithinSlots == GetNumItems <= Count

\* an AddInventoryItem call made on a full store, which stays full
C1_Witness ==
    /\ call.op = "AddInventoryItem"
    /\ Len(pre.items) = Count
    /\ GetNumItems = Count

\* C2: AddInventoryItem returns true exactly when the store's count after
\* the call is greater than before it; called at capacity it returns false
\* and leaves the store as it was.
C2_AddResultIffGrew ==
    call.op = "AddInventoryItem" =>
        /\ ret <=> (Len(items) > Len(pre.items))
        /\ Len(pre.items) >= Count => (~ret /\ items = pre.items)

\* an accepted add: true returned, one more item stored
C2_Witness ==
    /\ call.op = "AddInventoryItem"
    /\ ret
    /\ Len(items) = Len(pre.items) + 1
    /\ items[Len(items)] = call.arg

\* C3: an EquipItem call made while an item is equipped, for any slot value
\* and any store contents, leaves EquippedItem (and the store) unchanged.
C3_EquipNoOpWhileEquipped ==
    (call.op = "EquipItem" /\ pre.equipped # NULL) =>
        /\ EquippedItem = pre.equipped
        /\ items = pre.items

\* EquipItem(Secondary) called with the first of two different items equipped
C3_Witness ==
    /\ call.op = "EquipItem"
    /\ call.arg = Secondary
    /\ Len(pre.items) = 2
    /\ pre.equipped = pre.items[1]
    /\ pre.items[2] # pre.items[1]
    /\ EquippedItem = pre.items[1]

\* C4: with nothing equipped, EquipItem(Primary) on a non-empty store equips
\* the first item and EquipItem(Secondary) on a store of more than one item
\* equips the second; EquippedItem is then non-empty.
C4_EquipSelectsSlot ==
    (call.op = "EquipItem" /\ pre.equipped = NULL) =>
        /\ (call.arg = Primary /\ Len(pre.items) > 0) =>
               (EquippedItem = pre.items[1] /\ EquippedItem # NULL)
        /\ (call.arg = Secondary /\ Len(pre.items) > 1) =>
               (EquippedItem = pre.items[2] /\ EquippedItem # NULL)

\* EquipItem(Secondary) has equipped the second of two different items
C4_Witness ==
    /\ call.op = "EquipItem"
    /\ call.arg = Secondary
    /\ pre.equipped = NULL
    /\ Len(pre.items) = 2
    /\ pre.items[1] # pre.items[2]
    /\ EquippedItem = pre.items[2]

\* C5: a blocked EquipItem is a silent no-op: with nothing equipped, any slot
\* on an empty store and Secondary on a store of one item leave EquippedItem
\* empty; an out-of-range slot value leaves EquippedItem unchanged; no
\* out-of-range read of the store ever happens.
C5_BlockedEquipIsNoOp ==
    /\ ~rangeError
    /\ call.op = "EquipItem" =>
        /\ (pre.equipped = NULL /\ Len(pre.items) = 0) => EquippedItem = NULL
        /\ (pre.equipped = NULL /\ call.arg = Secondary /\ Len(pre.items) = 1) =>
               EquippedItem = NULL
        /\ call.arg \notin {Primary, Secondary, Count} =>
               EquippedItem = pre.equipped

\* EquipItem(Secondary) called on a store of one item with nothing equipped
C5_Witness ==
    /\ call.op = "EquipItem"
    /\ call.arg = Secondary
    /\ pre.equipped = NULL
    /\ Len(pre.items) = 1
    /\ EquippedItem = NULL

\* C6: from every state EquipItem(Count) leaves the same EquippedItem and
\* store as EquipItem(Primary) would leave from that state.
C6_CountEquipsAsPrimary ==
    /\ EquipOutcome(items, EquippedItem, Count)
           = EquipOutcome(items, EquippedItem, Primary)
    /\ (call.op = "EquipItem" /\ call.arg = Count) =>
           /\ {EquippedItem} = EquipOutcome(pre.items, pre.equipped, Primary)
           /\ items = pre.items

\* EquipItem(Count) with two different items stored and nothing equipped has
\* equipped the first
C6_Witness ==
    /\ call.op = "EquipItem"
    /\ call.arg = Count
    /\ pre.equipped = NULL
    /\ Len(pre.items) = 2
    /\ pre.items[1] # pre.items[2]
    /\ EquippedItem = pre.items[1]

\* C7: in every state the operations reach, a non-empty EquippedItem is one
\* of the store's items.
C7_EquippedIsStored == EquippedItem # NULL => Contains(items, EquippedItem)

\* RemoveInventoryItem has been called on the equipped item
C7_Witness ==
    /\ call.op = "RemoveInventoryItem"
    /\ EquippedItem # NULL
    /\ call.arg = EquippedItem

\* C8: after UnequipItem nothing is equipped, whatever was equipped before.
C8_UnequipClearsEquipped == call.op = "UnequipItem" => EquippedItem = NULL

\* The surface call that forwards a store notification.
Forwarded(ev) ==
    [surface |-> IF ev.kind = "added" THEN "OnInventoryItemAdded"
                                      ELSE "OnInventoryItemRemoved",
     item |-> ev.item]

\* C9: between BeginPlay and EndPlay a store notification is forwarded to the
\* matching OnInventoryItem... surface exactly once with the same item;
\* nothing is forwarded without a store notification, nor after EndPlay.
C9_ForwardedExactlyOnce ==
    /\ (phase = "playing" /\ storeEvent.kind # "none") =>
           outbound = <<Forwarded(storeEvent)>>
    /\ storeEvent.kind = "none" => outbound = <<>>
    /\ phase = "ended" => outbound = <<>>

\* a removal notification raised while playing, forwarded once to
\* OnInventoryItemRemoved with the removed item
C9_Witness ==
    /\ phase = "playing"
    /\ storeEvent.kind = "removed"
    /\ outbound = <<[surface |-> "OnInventoryItemRemoved", item |-> call.arg]>>

\* C10: RemoveInventoryItem, DropItem, DrawItem and HolsterItem leave the
\* store and EquippedItem unchanged; EquipItem never changes the store and
\* AddInventoryItem never changes EquippedItem; only AddInventoryItem changes
\* the store and only EquipItem changes EquippedItem.
C10_Frame ==
    /\ call.op \in {"RemoveInventoryItem", "DropItem", "DrawItem", "HolsterItem"} =>
           (items = pre.items /\ EquippedItem = pre.equipped)
    /\ call.op = "EquipItem" => items = pre.items
    /\ call.op = "AddInventoryItem" => EquippedItem = pre.equipped
    /\ items # pre.items => call.op = "AddInventoryItem"
    /\ EquippedItem # pre.equipped => call.op = "EquipItem"

\* DropItem called with an item equipped and a full store
C10_Witness ==
    /\ call.op = "DropItem"
    /\ EquippedItem # NULL
    /\ GetNumItems = Count

====
